---- MODULE Spec2Model ----
(***************************************************************************)
(* The video colour changer of src/main.py: the VideoPlayer window with    *)
(* its capture (cv2.VideoCapture), its play timer, its list of             *)
(* ColorMappingWidget and the handlers of its buttons, sliders and timer.  *)
(*                                                                         *)
(* A pixel is a BGR triple <<b, g, r>> of values 0..255, a frame a         *)
(* sequence of pixels (the grid, row by row).  A decodable file delivers   *)
(* every frame below its frame count and no frame at or beyond it.         *)
(***************************************************************************)
EXTENDS Integers, Sequences, FiniteSets, TLC

VARIABLES
    cap,          \* self.cap: [kind, path, pos]; kind "none" is None
    timerActive,  \* self.timer is running
    playing,      \* self.playing
    mappings,     \* self.mappings: the ColorMappingWidget list
    nextUid,      \* identity given to the next ColorMappingWidget object
    shown,        \* the pixmap of self.video_label and the frame it came from
    out,          \* the cv2.VideoWriter of apply_and_save and what it stored
    notice,       \* the QMessageBox raised by the latest handler ("" if none)
    pc            \* "idle", or "done_box" while line 385's modal box is up

vars == <<cap, timerActive, playing, mappings, nextUid, shown, out, notice, pc>>

----------------------------------------------------------------------------
(* Bounds of the model *)

MaxFrames == 3            \* frames of the longest video file
FramePixels == 2          \* pixels of a frame
MaxSessionWidgets == 1    \* widgets ever created in Spec
MaxCreated == 12          \* widgets ever created in SpecMappings
MaxCompositeMappings == 2 \* length of the mapping lists of SpecComposite

(* Program constant *)
MAX_MAPPINGS == 10

----------------------------------------------------------------------------
(* The file system and the decoder *)

VideoPaths == {"a.mp4", "b.mp4", "missing.mp4"}

\* cv2.VideoCapture(file_path).isOpened()
CanOpen(file_path) == file_path \in {"a.mp4", "b.mp4"}

\* cap.get(cv2.CAP_PROP_FRAME_COUNT)
TotalFrames(file_path) ==
    IF file_path = "a.mp4" THEN MaxFrames
    ELSE IF file_path = "b.mp4" THEN 1
    ELSE 0

Palette ==
    << <<255, 255, 255>>, <<0, 0, 0>>, <<0, 255, 0>>, <<200, 200, 200>>,
       <<5, 5, 5>> >>

\* The frame cap.read() delivers at position i (0-based) of the file
SourceFrame(file_path, i) ==
    [k \in 1..FramePixels |->
        Palette[((i + k - 1 + (IF file_path = "a.mp4" THEN 0 ELSE 3))
                    % Len(Palette)) + 1]]

\* Destinations of QFileDialog.getSaveFileName; "" is a cancelled dialog
SavePaths == {"", "out.mp4", "/readonly/out.mp4"}

\* How many frames a sink at save_path may take before a write fails
\* (MaxFrames or more: no write fails); a sink never created takes none
StoredChoices(save_path) == IF save_path = "out.mp4" THEN 0..MaxFrames ELSE {0}

\* cv2.VideoWriter(save_path, ...).isOpened()
CanCreate(save_path) == save_path = "out.mp4"

\* width, height and fps read from the capture at lines 363-365
VideoProps(file_path) ==
    [width |-> FramePixels, height |-> 1,
     fps |-> IF file_path = "a.mp4" THEN 30 ELSE 25]

----------------------------------------------------------------------------
(* ColorMappingWidget *)

\* ColorMappingWidget.__init__: the widget created for position index
NewWidget(index, uid) ==
    [uid |-> uid, index |-> index,
     lower_color |-> <<200, 200, 200>>,
     upper_color |-> <<255, 255, 255>>,
     new_line_color |-> <<0, 255, 0>>]

SliderNames == {"l_b", "l_g", "l_r", "u_b", "u_g", "u_r"}

Channel(slider) ==
    IF slider \in {"l_b", "u_b"} THEN 1
    ELSE IF slider \in {"l_g", "u_g"} THEN 2 ELSE 3

\* The value a slider of widget mw holds
SliderValue(mw, slider) ==
    IF slider \in {"l_b", "l_g", "l_r"}
    THEN mw.lower_color[Channel(slider)]
    ELSE mw.upper_color[Channel(slider)]

\* slider_changed after the slider was moved to v: both arrays are rebuilt
\* from the six sliders
slider_changed(mw, slider, v) ==
    IF slider \in {"l_b", "l_g", "l_r"}
    THEN [mw EXCEPT !.lower_color[Channel(slider)] = v]
    ELSE [mw EXCEPT !.upper_color[Channel(slider)] = v]

\* pick_color with a valid QColor <<r, g, b>>: stored in B, G, R order
pick_color(mw, color) ==
    [mw EXCEPT !.new_line_color = <<color[3], color[2], color[1]>>]

----------------------------------------------------------------------------
(* Frame compositing *)

\* cv2.inRange(src, lower, upper): 255 where every channel is in range
InRange(src, lower, upper) ==
    [k \in DOMAIN src |->
        IF \A c \in 1..3 : lower[c] <= src[k][c] /\ src[k][c] <= upper[c]
        THEN 255 ELSE 0]

\* frame[mask != 0] = color
Overwrite(frame, mask, color) ==
    [k \in DOMAIN frame |-> IF mask[k] # 0 THEN color ELSE frame[k]]

\* Faulty variant: the mask is taken from the frame being modified
RECURSIVE ApplyMappings_cascading(_, _, _)
ApplyMappings_cascading(original_frame, frame, mws) ==
    IF mws = <<>> THEN frame
    ELSE LET mw == Head(mws)
             mask == InRange(frame, mw.lower_color, mw.upper_color)
         IN  ApplyMappings_cascading(original_frame,
                 Overwrite(frame, mask, mw.new_line_color), Tail(mws))

\* The loop "for mw in self.mappings" of update_frame and apply_and_save
RECURSIVE ApplyMappings(_, _, _)
ApplyMappings(original_frame, frame, mws) ==
    IF mws = <<>> THEN frame
    ELSE LET mw == Head(mws)
             mask == InRange(original_frame, mw.lower_color, mw.upper_color)
         IN  ApplyMappings(original_frame,
                 Overwrite(frame, mask, mw.new_line_color), Tail(mws))

\* cv2.cvtColor(frame, cv2.COLOR_BGR2RGB)
BGR2RGB(frame) ==
    [k \in DOMAIN frame |-> <<frame[k][3], frame[k][2], frame[k][1]>>]

----------------------------------------------------------------------------
(* The capture and update_frame *)

NoCap == [kind |-> "none", path |-> "", pos |-> 0]
NoShown == [idx |-> -1, pixels |-> <<>>]
NoSink == [path |-> "", opened |-> FALSE, released |-> FALSE,
           props |-> [width |-> 0, height |-> 0, fps |-> 0],
           calls |-> <<>>, file |-> <<>>]

\* self.cap is not None and self.cap.isOpened()
IsOpened(c) == c.kind = "opened"

\* Faulty variant: the end of the video does not rewind
EndRewind_none(pos) == pos

\* line 319: cap.set(CAP_PROP_POS_FRAMES, 0) at the end of the video
EndRewind(pos) == 0

\* update_frame, as a function of the state it reads, giving what it writes
update_frame(c, pl, tm, sh, mws) ==
    IF ~IsOpened(c)
    THEN [cap |-> c, playing |-> pl, timerActive |-> tm, shown |-> sh]
    ELSE IF c.pos >= TotalFrames(c.path)
    THEN [cap |-> [c EXCEPT !.pos = EndRewind(c.pos)],
          playing |-> FALSE,
          timerActive |-> IF pl THEN FALSE ELSE tm,
          shown |-> sh]
    ELSE LET frame == SourceFrame(c.path, c.pos)
         IN  [cap |-> [c EXCEPT !.pos = c.pos + 1],
              playing |-> pl, timerActive |-> tm,
              shown |-> [idx |-> c.pos,
                         pixels |-> BGR2RGB(ApplyMappings(frame, frame, mws))]]

\* The state left by a call of update_frame made with capture c, flags pl
\* and tm and mapping list mws
CallUpdateFrame(c, pl, tm, mws) ==
    LET r == update_frame(c, pl, tm, shown, mws)
    IN  /\ cap' = r.cap
        /\ playing' = r.playing
        /\ timerActive' = r.timerActive
        /\ shown' = r.shown

\* mapping_changed with mapping list mws: a preview unless playing
mapping_changed(mws) ==
    IF ~playing
    THEN CallUpdateFrame(cap, playing, timerActive, mws)
    ELSE UNCHANGED <<cap, playing, timerActive, shown>>

----------------------------------------------------------------------------
(* The mapping list *)

\* list.insert(index, x) of Python, index 0-based
InsertAt(list, index, x) ==
    SubSeq(list, 1, index) \o <<x>> \o SubSeq(list, index + 1, Len(list))

\* list.pop(index) of Python, index 0-based: the list left
PopAt(list, index) ==
    SubSeq(list, 1, index) \o SubSeq(list, index + 2, Len(list))

\* Faulty variant: the widgets left keep the index they had
Relabel_stale(list) == list

\* lines 265-267: every widget left takes its position as index
Relabel(list) == [i \in DOMAIN list |-> [list[i] EXCEPT !.index = i - 1]]

\* Faulty variant: the limit test lets one more widget in
AtLimit_late(n) == n > MAX_MAPPINGS

\* line 248: len(self.mappings) >= MAX_MAPPINGS
AtLimit(n) == n >= MAX_MAPPINGS

\* add_mapping; limit bounds the widgets ever created
add_mapping(limit) ==
    /\ pc = "idle"
    /\ IF AtLimit(Len(mappings))
       THEN /\ notice' = "Limit Reached"
            /\ UNCHANGED <<mappings, nextUid>>
       ELSE /\ nextUid < limit
            /\ LET index == Len(mappings)
               IN  mappings' = InsertAt(mappings, index, NewWidget(index, nextUid))
            /\ nextUid' = nextUid + 1
            /\ notice' = ""
    /\ UNCHANGED <<cap, timerActive, playing, shown, out, pc>>

\* remove_mapping(index): the list it leaves
remove_mapping(list, index) == Relabel(PopAt(list, index))

\* The Remove button of the widget at position k (1-based) is clicked:
\* remove_callback(self.index)
RemoveClicked(k) ==
    /\ pc = "idle"
    /\ k \in DOMAIN mappings
    /\ mappings[k].index < Len(mappings)
    /\ mappings' = remove_mapping(mappings, mappings[k].index)
    /\ mapping_changed(mappings')
    /\ notice' = ""
    /\ UNCHANGED <<nextUid, out, pc>>

\* A slider of the widget at position k is moved to v: slider_changed
SliderMoved(k, slider, v) ==
    /\ pc = "idle"
    /\ k \in DOMAIN mappings
    /\ v # SliderValue(mappings[k], slider)
    /\ mappings' = [mappings EXCEPT ![k] = slider_changed(@, slider, v)]
    /\ mapping_changed(mappings')
    /\ notice' = ""
    /\ UNCHANGED <<nextUid, out, pc>>

\* The colour button of the widget at position k: pick_color, the dialog
\* giving color, valid or not
PickColor(k, color, valid) ==
    /\ pc = "idle"
    /\ k \in DOMAIN mappings
    /\ IF valid
       THEN /\ mappings' = [mappings EXCEPT ![k] = pick_color(@, color)]
            /\ mapping_changed(mappings')
       ELSE UNCHANGED <<mappings, cap, playing, timerActive, shown>>
    /\ notice' = ""
    /\ UNCHANGED <<nextUid, out, pc>>

----------------------------------------------------------------------------
(* Loading and playing *)

\* load_new_video(file_path)
load_new_video(file_path) ==
    /\ pc = "idle"
    /\ IF ~CanOpen(file_path)
       THEN /\ cap' = [kind |-> "unopened", path |-> file_path, pos |-> 0]
            /\ notice' = "Could not open video."
            /\ UNCHANGED <<playing, timerActive, shown>>
       ELSE /\ CallUpdateFrame([kind |-> "opened", path |-> file_path, pos |-> 0],
                               FALSE, FALSE, mappings)
            /\ notice' = ""
    /\ UNCHANGED <<mappings, nextUid, out, pc>>

\* toggle_play
toggle_play ==
    /\ pc = "idle"
    /\ IF ~IsOpened(cap)
       THEN UNCHANGED <<playing, timerActive>>
       ELSE /\ playing' = ~playing
            /\ timerActive' = playing'
    /\ notice' = ""
    /\ UNCHANGED <<cap, mappings, nextUid, shown, out, pc>>

\* The timer's timeout: update_frame
Tick ==
    /\ pc = "idle"
    /\ timerActive
    /\ CallUpdateFrame(cap, playing, timerActive, mappings)
    /\ notice' = ""
    /\ UNCHANGED <<mappings, nextUid, out, pc>>

----------------------------------------------------------------------------
(* Export *)

\* Faulty variant: the export starts where the preview stands
ExportRewind_none(pos) == pos

\* line 362: cap.set(CAP_PROP_POS_FRAMES, 0) before the export loop
ExportRewind(pos) == 0

\* Faulty variant: the capture is left at the end of the video
FinalRewind_none(pos) == pos

\* line 383: cap.set(CAP_PROP_POS_FRAMES, 0) after the export loop
FinalRewind(pos) == 0

\* The loop of lines 371-379 from position pos: the frames handed to
\* out.write, in order, and the position the capture is left at
RECURSIVE ExportLoop(_, _, _, _)
ExportLoop(path, pos, mws, written) ==
    IF pos >= TotalFrames(path)
    THEN [pos |-> pos, written |-> written]
    ELSE LET frame == SourceFrame(path, pos)
         IN  ExportLoop(path, pos + 1, mws,
                        Append(written, ApplyMappings(frame, frame, mws)))

\* Faulty variant: playback is stopped before the destination is asked for
StopBeforePrompt_early(save_path) == TRUE

\* lines 353-359: playback is stopped only once a destination is chosen
StopBeforePrompt(save_path) == save_path # ""

\* apply_and_save; save_path is the dialog's answer, stored the number of
\* frames the sink takes before a write fails (all or more: no failure)
apply_and_save(save_path, stored) ==
    /\ pc = "idle"
    /\ IF ~IsOpened(cap)
       THEN /\ notice' = "No Video"
            /\ UNCHANGED <<cap, timerActive, playing, shown, out, pc>>
       ELSE IF save_path = ""
       THEN /\ notice' = ""
            /\ playing' = (IF StopBeforePrompt(save_path) THEN FALSE ELSE playing)
            /\ timerActive' = (IF StopBeforePrompt(save_path) THEN FALSE ELSE timerActive)
            /\ UNCHANGED <<cap, shown, out, pc>>
       ELSE LET start == ExportRewind(cap.pos)
                loop == ExportLoop(cap.path, start, mappings, <<>>)
                created == CanCreate(save_path)
                kept == IF stored < Len(loop.written)
                        THEN stored ELSE Len(loop.written)
                rewound == [cap EXCEPT !.pos = FinalRewind(loop.pos)]
            IN  /\ out' = [path |-> save_path,
                           opened |-> created,
                           released |-> TRUE,
                           props |-> VideoProps(cap.path),
                           calls |-> loop.written,
                           file |-> IF created
                                    THEN SubSeq(loop.written, 1, kept)
                                    ELSE <<>>]
                /\ CallUpdateFrame(rewound, FALSE, FALSE, mappings)
                /\ notice' = "Done"
                /\ pc' = "done_box"
    /\ UNCHANGED <<mappings, nextUid>>

\* The box of line 385 is dismissed and apply_and_save returns
DismissDone ==
    /\ pc = "done_box"
    /\ pc' = "idle"
    /\ out' = NoSink
    /\ notice' = ""
    /\ UNCHANGED <<cap, timerActive, playing, mappings, nextUid, shown>>

----------------------------------------------------------------------------
(* The player: every handler, with small inputs *)

SessionSliders == {"l_b", "u_b"}
SessionSliderValues == {0, 200, 255}
SessionColors == {<<255, 0, 0>>, <<0, 255, 0>>}   \* QColor <<r, g, b>>

\* What the colour dialog may give: a colour picked, or none (cancelled)
DialogColors(valid) == IF valid THEN SessionColors ELSE {<<0, 0, 0>>}

\* VideoPlayer.__init__ without a video path
Init ==
    /\ cap = NoCap
    /\ timerActive = FALSE
    /\ playing = FALSE
    /\ mappings = <<>>
    /\ nextUid = 0
    /\ shown = NoShown
    /\ out = NoSink
    /\ notice = ""
    /\ pc = "idle"

Next ==
    \/ add_mapping(MaxSessionWidgets)
    \/ \E k \in 1..MAX_MAPPINGS : RemoveClicked(k)
    \/ \E k \in 1..MaxSessionWidgets, s \in SessionSliders, v \in SessionSliderValues :
          SliderMoved(k, s, v)
    \/ \E k \in 1..MaxSessionWidgets, valid \in BOOLEAN :
          \E c \in DialogColors(valid) : PickColor(k, c, valid)
    \/ \E p \in VideoPaths : load_new_video(p)
    \/ toggle_play
    \/ Tick
    \/ \E p \in SavePaths : \E n \in StoredChoices(p) : apply_and_save(p, n)
    \/ DismissDone

Spec == Init /\ [][Next]_vars

----------------------------------------------------------------------------
(* The mapping list alone: add_mapping and Remove with no video loaded *)

NextMappings ==
    \/ add_mapping(MaxCreated)
    \/ \E k \in 1..MAX_MAPPINGS : RemoveClicked(k)

SpecMappings == Init /\ [][NextMappings]_vars

----------------------------------------------------------------------------
(* Compositing: a video loaded under a list of mappings whose thresholds   *)
(* and colours come from small sets, then played and exported              *)

CompositeLowers == {<<200, 200, 200>>, <<0, 200, 0>>}
CompositeUppers == {<<255, 255, 255>>, <<10, 255, 10>>}
CompositeColors == {<<0, 255, 0>>, <<0, 0, 255>>, <<5, 5, 5>>}

CompositeSettings ==
    [lower_color : CompositeLowers, upper_color : CompositeUppers,
     new_line_color : CompositeColors]

\* The widget list whose widgets were given the settings f[1], f[2], ...
WidgetList(f) ==
    [i \in DOMAIN f |->
        [uid |-> i - 1, index |-> i - 1,
         lower_color |-> f[i].lower_color,
         upper_color |-> f[i].upper_color,
         new_line_color |-> f[i].new_line_color]]

\* The state once the mappings are set and load_new_video(p) has returned
InitComposite ==
    \E p \in {q \in VideoPaths : CanOpen(q)}, n \in 0..MaxCompositeMappings :
      \E f \in [1..n -> CompositeSettings] :
        LET r == update_frame([kind |-> "opened", path |-> p, pos |-> 0],
                              FALSE, FALSE, NoShown, WidgetList(f))
        IN  /\ mappings = WidgetList(f)
            /\ nextUid = n
            /\ cap = r.cap
            /\ playing = r.playing
            /\ timerActive = r.timerActive
            /\ shown = r.shown
            /\ out = NoSink
            /\ notice = ""
            /\ pc = "idle"

NextComposite ==
    \/ toggle_play
    \/ Tick
    \/ \E p \in SavePaths : \E n \in StoredChoices(p) : apply_and_save(p, n)
    \/ DismissDone

SpecComposite == InitComposite /\ [][NextComposite]_vars

----------------------------------------------------------------------------
(* What the claims are stated with *)

\* Pixel p lies in the inclusive range of mapping mw, channel by channel
Matches(mw, p) ==
    \A c \in 1..3 : mw.lower_color[c] <= p[c] /\ p[c] <= mw.upper_color[c]

\* The colour of the last mapping of mws whose range holds p, or p
LastMatch(mws, p) ==
    LET hits == {i \in DOMAIN mws : Matches(mws[i], p)}
    IN  IF hits = {} THEN p
        ELSE mws[CHOOSE i \in hits : \A j \in hits : j <= i].new_line_color

\* The frame expected of compositing frame under mws
Expected(frame, mws) == [k \in DOMAIN frame |-> LastMatch(mws, frame[k])]

\* The pixmap expected of source frame i of the open video under mws
ExpectedShown(i, mws) ==
    [idx |-> i,
     pixels |-> [k \in 1..FramePixels |->
        LET e == LastMatch(mws, SourceFrame(cap.path, i)[k])
        IN  <<e[3], e[2], e[1]>>]]

\* A step that edits the mapping set: a slider, a colour or a removal
MappingEdit ==
    \/ \E k \in DOMAIN mappings, s \in SessionSliders, v \in SessionSliderValues :
          SliderMoved(k, s, v)
    \/ \E k \in DOMAIN mappings, c \in SessionColors : PickColor(k, c, TRUE)
    \/ \E k \in DOMAIN mappings : RemoveClicked(k)

\* A step in which update_frame runs as the whole of a tick or a preview
PreviewStep == Tick \/ (~playing /\ MappingEdit)

----------------------------------------------------------------------------
(* C1: every pixel of a composited frame, in the preview and in every      *)
(* frame handed to the sink, is the replacement colour of the last mapping *)
(* whose range holds the ORIGINAL pixel, or the original pixel when no     *)
(* range holds it; nothing is matched again after being rewritten.         *)
C1_LastMatchOfOriginal ==
    /\ shown.idx >= 0 => shown = ExpectedShown(shown.idx, mappings)
    /\ pc = "done_box" =>
          \A i \in DOMAIN out.calls :
             out.calls[i] = Expected(SourceFrame(cap.path, i - 1), mappings)

\* A shown pixel that an earlier mapping rewrote to a colour lying in a
\* later mapping's range, the later mapping not holding the original
C1_Witness ==
    /\ shown.idx >= 0
    /\ pc = "done_box"
    /\ \E k \in 1..FramePixels, i \in DOMAIN mappings, j \in DOMAIN mappings :
          LET p == SourceFrame(cap.path, shown.idx)[k]
          IN  /\ i < j
              /\ out.calls[shown.idx + 1][k] = mappings[i].new_line_color
              /\ Matches(mappings[i], p)
              /\ ~Matches(mappings[j], p)
              /\ Matches(mappings[j], mappings[i].new_line_color)
              /\ mappings[j].new_line_color # mappings[i].new_line_color
              /\ shown.pixels[k] = <<mappings[i].new_line_color[3],
                                     mappings[i].new_line_color[2],
                                     mappings[i].new_line_color[1]>>

(* C2: an export hands the sink exactly the N frames of the source, the    *)
(* i-th being the composite of source frame i, whatever the position and   *)
(* the play state were when it was invoked.                                *)
C2_ExportWritesEveryFrame ==
    pc = "done_box" =>
       /\ Len(out.calls) = TotalFrames(cap.path)
       /\ \A i \in DOMAIN out.calls :
             out.calls[i] = Expected(SourceFrame(cap.path, i - 1), mappings)
       /\ out.opened => \A i \in DOMAIN out.file : out.file[i] = out.calls[i]

C2_Witness ==
    /\ pc = "done_box"
    /\ out.opened
    /\ Len(out.file) = MaxFrames
    /\ mappings # <<>>
    /\ out.file[1] # SourceFrame(cap.path, 0)

(* C3: update_frame invoked at or beyond the last frame shows no frame,    *)
(* sets the position to 0 and stops playback (flag and timer); invoked at  *)
(* position 0 it delivers frame 0.                                         *)
C3_EndOfStream ==
    [][ /\ (IsOpened(cap) /\ cap.pos >= TotalFrames(cap.path) /\ PreviewStep)
           => (/\ cap'.pos = 0
               /\ IsOpened(cap')
               /\ ~playing'
               /\ ~timerActive'
               /\ shown' = shown)
        /\ (IsOpened(cap) /\ cap.pos = 0 /\ PreviewStep)
           => (/\ shown' = ExpectedShown(0, mappings')
               /\ cap'.pos = 1) ]_vars

\* The last frame is shown, the position is back at 0 and playback stopped
C3_Witness ==
    /\ IsOpened(cap)
    /\ TotalFrames(cap.path) > 1
    /\ shown.idx = TotalFrames(cap.path) - 1
    /\ cap.pos = 0
    /\ ~playing
    /\ ~timerActive

(* C4: an export whose sink cannot be created, or one of whose writes      *)
(* fails, surfaces a failure and never reports success.                    *)
C4_WriteFailureSurfaced ==
    (pc = "done_box" /\ (~out.opened \/ Len(out.file) < Len(out.calls)))
       => notice \notin {"Done", ""}

(* C5: when an export returns the sink is closed, playback is stopped and  *)
(* the preview shows source frame 0, composited.                           *)
C5_AfterExport ==
    pc = "done_box" =>
       /\ out.released
       /\ ~playing
       /\ ~timerActive
       /\ IsOpened(cap)
       /\ shown = ExpectedShown(0, mappings)

C5_Witness ==
    /\ pc = "done_box"
    /\ out.released
    /\ TotalFrames(cap.path) > 1
    /\ shown.idx = 0
    /\ cap.pos = 1

(* C6: apply_and_save with no open session, or with no destination given,  *)
(* creates no sink and leaves the session, the play state and the mapping  *)
(* list as they were.                                                      *)
C6_ExportNoOp ==
    [][ \A p \in SavePaths : \A n \in StoredChoices(p) :
           ((~IsOpened(cap) \/ p = "") /\ apply_and_save(p, n))
              => (/\ out' = NoSink
                  /\ pc' = "idle"
                  /\ UNCHANGED <<cap, playing, timerActive, mappings, shown>>)
      ]_vars

\* An export was asked for with no session open, while the list has a mapping
C6_Witness == notice = "No Video" /\ mappings # <<>>

(* C7: the mapping list never holds more than 10 entries, and add_mapping  *)
(* on a list of 10 is rejected and leaves the list as it was.              *)
C7_MappingLimit ==
    [][ /\ Len(mappings') <= MAX_MAPPINGS
        /\ (add_mapping(MaxCreated) /\ Len(mappings) >= MAX_MAPPINGS)
              => (mappings' = mappings /\ notice' = "Limit Reached") ]_vars

C7_Witness == notice = "Limit Reached" /\ Len(mappings) = MAX_MAPPINGS

(* C8: a mapping edit on an open session re-renders the frame that was     *)
(* shown, without advancing the session, when playback is paused; and      *)
(* reads no frame when playback is playing.                                *)
C8_RerenderCurrentFrame ==
    [][ (IsOpened(cap) /\ shown.idx >= 0 /\ MappingEdit) =>
           IF ~playing
           THEN /\ shown' = ExpectedShown(shown.idx, mappings')
                /\ cap' = cap
           ELSE /\ shown' = shown
                /\ cap' = cap ]_vars

(* C9: while playback is active (flag or timer) a session is open.         *)
C9_PlayingImpliesOpen == (playing \/ timerActive) => IsOpened(cap)

(* C10: every widget's stored index is its position in the list, and the   *)
(* Remove button of the widget at position k removes that widget alone,    *)
(* the others keeping their order.                                         *)
C10_IndexIsPosition ==
    [][ /\ \A i \in DOMAIN mappings' : mappings'[i].index = i - 1
        /\ \A k \in DOMAIN mappings :
              RemoveClicked(k) =>
                 /\ Len(mappings') = Len(mappings) - 1
                 /\ \A i \in DOMAIN mappings' :
                       mappings'[i].uid =
                          mappings[IF i < k THEN i ELSE i + 1].uid ]_vars

\* Widgets were removed from the front and the rest moved up
C10_Witness ==
    /\ Len(mappings) >= 2
    /\ mappings[1].uid # 0
    /\ mappings[2].uid > mappings[1].uid + 1
    /\ mappings[2].index = 1

====
